---- MODULE Spec2Model ----
(***************************************************************************)
(* TinyCException: the exception frame stack and the control transfer of   *)
(* the Try / Catch / CatchCustom / CatchAll / Finally / End / Throw and    *)
(* Return / Break / Continue macros of TinyCException.h.                   *)
(*                                                                         *)
(* A thread's C stack holds the __e_frame objects of the Try regions it    *)
(* has entered and not left.  Regions nest like the call stack, so the     *)
(* frame of the i-th live region is the i-th frame object of the stack:    *)
(* slot i.  A pointer to a frame is its slot number, NULL is 0.  A frame   *)
(* whose region was left is Dead: its lifetime has ended and a new Try at  *)
(* the same stack position reuses the slot.                                *)
(*                                                                         *)
(* The program that uses the macros is not fixed: what a body does next    *)
(* (enter a region, throw, complete, leave early), the clauses of a chain  *)
(* and the presence of a Finally block are chosen when control first       *)
(* reaches them.                                                           *)
(***************************************************************************)
EXTENDS Integers, Sequences, FiniteSets, TLC

\* ------------------------------------------------------------------ bounds
MaxDepth == 2        \* deepest nesting of Try regions on one thread
MaxCode == 2         \* exception codes are 0..MaxCode
MaxChain == 2        \* most clauses in one handler chain
MaxHandler == 1      \* number of distinct terminate handler functions

Threads == {1, 2}
Codes == 0 .. MaxCode
NonZero == 1 .. MaxCode
Handlers == 1 .. MaxHandler
Slots == 1 .. MaxDepth
NULL == 0

\* ------------------------------------------------------- the handler chain
\* Catch(e): e is one of the program's exception codes.
CatchClause(e) == [kind |-> "Catch", e |-> e, cond |-> {}]
\* CatchCustom(condition): the condition is a range test of ErrorCode, as the
\* IS_FILE_ERROR example; cond is the set of codes for which it is true.
CustomClause(S) == [kind |-> "CatchCustom", e |-> 0, cond |-> S]
AllClause == [kind |-> "CatchAll", e |-> 0, cond |-> {}]

CustomConds == {lo .. MaxCode : lo \in NonZero}
ClauseSet ==
    {CatchClause(e) : e \in NonZero} \cup {CustomClause(S) : S \in CustomConds}
        \cup {AllClause}
ChainsUpTo(w) == UNION {[1 .. k -> ClauseSet] : k \in 0 .. w}

\* ------------------------------------------------------------- the frame
\* A call site of Throw: the region (0: outside every region) and the block
\* of it that holds the Throw.  It stands for __FILE__/__FUNCTION__/__LINE__.
Site(d, ph) == [d |-> d, ph |-> ph]
NoSite == Site(0, "none")

\* struct __exp_frame_t: flag, error_code, prev (the jmp_buf is the slot itself,
\* with pc the point where the region's code is executing).  chain and fb are
\* the region's program text: chain holds the clauses while they are being
\* evaluated (pc = "dispatch"), fb is "?" until control reaches the end of the
\* chain.  fin, thr and ran are history: the number of times the Finally body
\* was entered, the errors delivered to the frame, the clause bodies entered;
\* early is the block in which a Break or Continue was executed that did not
\* take control out of the region ("none": there was no such one).
Dead ==
    [pc |-> "dead", flag |-> 0, error_code |-> 0, prev |-> NULL, chain |-> <<>>,
     fb |-> "?", fin |-> 0, thr |-> <<>>, ran |-> <<>>, early |-> "none"]

VARIABLES
    exp_stack_top,       \* per thread: __exp_stack_top
    fr,                  \* per thread: the frame object of each slot
    n,                   \* per thread: number of live regions (slots 1..n)
    exception_detail_s,  \* per thread: __exception_detail_s
    terminate_handle,    \* per thread: __terminate_handle
    status,              \* per thread: "off", "running", or how it stopped
    report,              \* per thread: the uncaught-exception report printed
    called,              \* per thread: the call of the terminate handler
    last,                \* the last step: the thread that took it, its early exit
    prog                 \* per thread: the shape of the program it runs

vars ==
    <<exp_stack_top, fr, n, exception_detail_s, terminate_handle, status, report,
      called, last, prog>>

NoReport == [printed |-> FALSE, code |-> 0, detail |-> NoSite, origin |-> NoSite]
NoCall == [h |-> NULL, code |-> 0]

\* abort() ends the process: no thread runs after it.  A fault of undefined
\* behaviour ends it too.
Alive == \A u \in Threads : status[u] \notin {"aborted", "crashed"}
Running(t) == Alive /\ status[t] = "running"

\* Control of t is in a block of code (outside every region, or in a block of
\* the innermost live region), and the site of that block.
InCode(t) == IF n[t] = 0 THEN TRUE ELSE fr[t][n[t]].pc \in {"body", "handler", "finally"}
Position(t) == IF n[t] = 0 THEN Site(0, "top") ELSE Site(n[t], fr[t][n[t]].pc)

\* A frame pointer that can be dereferenced: it points to a live frame.
Valid(F, nn, p) == p \in 1 .. nn /\ F[p].pc # "dead"

\* The early exit executed in a step: the macro (how), the block that held it
\* (at), the slot of the region's frame and that frame's prev and fin; around,
\* the region is a statement of the body of a loop of the program; to, where
\* control goes: "caller" (return), "behind End" (the statement that follows
\* the region's End), "inner loop" (behind or at the head of a loop inside the
\* block), "around loop" (behind or at the head of the loop around the
\* region).  NoExit: the step was no early exit.  Did: the step is one of
\* thread t, with exit x.
NoExit ==
    [how |-> "none", at |-> "none", slot |-> 0, prev |-> NULL, fin |-> 0,
     around |-> FALSE, to |-> "none"]
Exit(x, k, f) ==
    [how |-> x, at |-> f.pc, slot |-> k, prev |-> f.prev, fin |-> f.fin,
     around |-> FALSE, to |-> "caller"]
Did(t, x) == last' = [actor |-> t, exit |-> x]

\* Leaving the regions above slot k ends the lifetime of their frames.
Unwind(F, k) == [i \in Slots |-> IF i > k THEN Dead ELSE F[i]]

\* ------------------------------------------------------------------- Init
InitCommon ==
    /\ exp_stack_top = [t \in Threads |-> NULL]
    /\ fr = [t \in Threads |-> [i \in Slots |-> Dead]]
    /\ n = [t \in Threads |-> 0]
    /\ exception_detail_s = [t \in Threads |-> NoSite]
    /\ terminate_handle = [t \in Threads |-> NULL]
    /\ report = [t \in Threads |-> NoReport]
    /\ called = [t \in Threads |-> NoCall]
    /\ last = [actor |-> 0, exit |-> NoExit]

\* The shape of a thread's program: limit, the deepest nesting of its regions;
\* width, the most clauses in one of its chains; deep, the most regions of one
\* function that enclose a region in which the function executes Return;
\* loops, it has loops inside blocks of its regions, with Break or Continue in
\* them, and loops whose body holds a region.
Shape(l, w, d, lp) == [limit |-> l, width |-> w, deep |-> d, loops |-> lp]
Idle == Shape(0, 0, 0, FALSE)

\* One thread uses the library; it executes Return only in the outermost region
\* of the returning function.
Init ==
    /\ InitCommon
    /\ status = [t \in Threads |-> IF t = 1 THEN "running" ELSE "off"]
    /\ prog = [t \in Threads |-> IF t = 1 THEN Shape(MaxDepth, MaxChain, 0, FALSE) ELSE Idle]

\* One thread uses the library: with half of the nesting and half of the
\* clauses, or with all of the nesting and regions without clauses.
InitPlain ==
    /\ InitCommon
    /\ status = [t \in Threads |-> IF t = 1 THEN "running" ELSE "off"]
    /\ \E s \in {Shape(MaxDepth \div 2, MaxChain \div 2, 0, FALSE), Shape(MaxDepth, 0, 0, FALSE)} :
         prog = [t \in Threads |-> IF t = 1 THEN s ELSE Idle]

\* One thread uses it, with half of the clauses, and executes Return in nested
\* regions of a function too.
InitReturn ==
    /\ InitCommon
    /\ status = [t \in Threads |-> IF t = 1 THEN "running" ELSE "off"]
    /\ prog = [t \in Threads |->
                IF t = 1 THEN Shape(MaxDepth, MaxChain \div 2, MaxDepth, FALSE) ELSE Idle]

\* Two threads use it, each with half of the nesting; the regions of the first
\* have half of the clauses, the regions of the second have none.
InitMT ==
    /\ InitCommon
    /\ status = [t \in Threads |-> "running"]
    /\ prog = [t \in Threads |->
                Shape(MaxDepth \div 2, IF t = 1 THEN MaxChain \div 2 ELSE 0, 0, FALSE)]

\* One thread uses it, with half of the nesting and of the clauses; it
\* executes Break and Continue also in loops that are inside a block of a
\* region, and in regions that are inside a loop.
InitLoop ==
    /\ InitCommon
    /\ status = [t \in Threads |-> IF t = 1 THEN "running" ELSE "off"]
    /\ prog = [t \in Threads |->
                IF t = 1 THEN Shape(MaxDepth \div 2, MaxChain \div 2, 0, TRUE) ELSE Idle]

\* -------------------------------------------------------------------- Try
\* Try: __e_frame.prev = top; top = &__e_frame; error_code = 0; flag = 0;
\* setjmp returns 0 and the body starts.
NewFrame(p) ==
    [pc |-> "body", flag |-> 0, error_code |-> 0, prev |-> p, chain |-> <<>>,
     fb |-> "?", fin |-> 0, thr |-> <<>>, ran |-> <<>>, early |-> "none"]

Try(t) ==
    /\ Running(t) /\ InCode(t)
    /\ n[t] < prog[t].limit
    /\ LET s == n[t] + 1 IN
        /\ fr' = [fr EXCEPT ![t][s] = NewFrame(exp_stack_top[t])]
        /\ exp_stack_top' = [exp_stack_top EXCEPT ![t] = s]
        /\ n' = [n EXCEPT ![t] = s]
    /\ Did(t, NoExit)
    /\ UNCHANGED <<exception_detail_s, terminate_handle, status, report, called, prog>>

\* ------------------------------------------------- __exp_throw_internal
\* What is known of an error in flight: own, it was raised by a Throw (not by
\* the End of a nested region); pure, it was raised in a Try body and every
\* region it has left held the next inner region in its Try body; fins, the
\* Finally blocks of the regions it has left: "none" (they have none), "ran"
\* (each was entered before the region's End), "skipped" (one was not); site,
\* the call site of the Throw that raised it.
Raised(here) == [own |-> TRUE, pure |-> here.ph = "body", fins |-> "none", site |-> here]
Passed(e, f) ==
    [own |-> FALSE, pure |-> e.pure, site |-> e.site,
     fins |-> IF e.fins = "skipped" \/ (f.fb = "yes" /\ f.fin = 0) THEN "skipped"
              ELSE IF f.fb = "yes" THEN "ran" ELSE e.fins]

\* An error delivered to a frame: its code, the block (at) of the frame's
\* region that was executing, and what is known of the error.
Delivery(code, block, src) ==
    [code |-> code, at |-> block, own |-> src.own,
     pure |-> IF src.own THEN src.pure ELSE src.pure /\ block = "body",
     fins |-> src.fins, site |-> src.site]

\* The store of the code skipped when a code is already pending in the frame.
Jump_KeepFirst(F, p, code, src, ch) ==
    Unwind([F EXCEPT ![p].error_code = IF @ # 0 THEN @ ELSE code,
                     ![p].pc = "dispatch",
                     ![p].chain = ch,
                     ![p].thr = Append(@, Delivery(code, F[p].pc, src))],
           p)

\* top->error_code = code; longjmp(top->buf, 1): the regions above the frame
\* are abandoned and the frame's setjmp returns 1, in front of the handler
\* chain ch.
Jump(F, p, code, src, ch) ==
    Unwind([F EXCEPT ![p].error_code = code,
                     ![p].pc = "dispatch",
                     ![p].chain = ch,
                     ![p].thr = Append(@, Delivery(code, F[p].pc, src))],
           p)

\* The chains the frame f can be in front of.  Every clause condition tests
\* (flag & 3) < 2.  With the count at 2 or more the clauses differ in nothing
\* the frame can observe, and two chains stand for all: the one without
\* clauses and the one whose clause accepts every code.
ChainsAt(f, w) ==
    IF (f.flag % 4) < 2 THEN ChainsUpTo(w)
    ELSE {ch \in ChainsUpTo(w) : ch \in {<<>>, <<AllClause>>}}

\* if (__exp_stack_top) ++__exp_stack_top->flag;   (Throw and End)
IncFlag(F, nn, p) == IF Valid(F, nn, p) THEN [F EXCEPT ![p].flag = @ + 1] ELSE F

\* What dereferencing a dangling __exp_stack_top can do: fault, or carry on
\* from a stale context.
UBOutcomes == {"crashed", "undefined"}

\* The else branch without the report and abort(): the function returns.
Uncaught_Silent(t, code, d, o) ==
    LET h == terminate_handle[t] IN
    /\ called' = [called EXCEPT ![t] = IF h # NULL THEN [h |-> h, code |-> code] ELSE @]
    /\ \E returns \in (IF h # NULL THEN BOOLEAN ELSE {TRUE}) :
         IF returns
         THEN UNCHANGED status
         ELSE status' = [status EXCEPT ![t] = "handled"]
    /\ UNCHANGED report

\* The else branch of __exp_throw_internal: no Try block is active.  The
\* terminate handler, if set, is called with the code; it should not return;
\* if it does, or none is set, the report is printed with the diagnostic record
\* d and abort() ends the process.  o is the site of the Throw that raised the
\* code, which the report keeps as origin.
Uncaught(t, code, d, o) ==
    LET h == terminate_handle[t] IN
    /\ called' = [called EXCEPT ![t] = IF h # NULL THEN [h |-> h, code |-> code] ELSE @]
    /\ \E returns \in (IF h # NULL THEN BOOLEAN ELSE {TRUE}) :
         IF returns
         THEN /\ report' = [report EXCEPT ![t] = [printed |-> TRUE, code |-> code, detail |-> d, origin |-> o]]
              /\ status' = [status EXCEPT ![t] = "aborted"]
         ELSE /\ status' = [status EXCEPT ![t] = "handled"]
              /\ UNCHANGED report

\* __exp_throw_internal(code) with top = p, frames F, nn live regions, the
\* diagnostic record d; src is what is known of the error.
exp_throw_internal(t, p, F, nn, code, src, d) ==
    IF p # NULL
    THEN IF Valid(F, nn, p)
         THEN /\ \E ch \in ChainsAt(F[p], prog[t].width) :
                    fr' = [fr EXCEPT ![t] = Jump(F, p, code, src, ch)]
              /\ n' = [n EXCEPT ![t] = p]
              /\ UNCHANGED <<status, report, called>>
         ELSE /\ \E o \in UBOutcomes : status' = [status EXCEPT ![t] = o]
              /\ fr' = [fr EXCEPT ![t] = F]
              /\ n' = [n EXCEPT ![t] = nn]
              /\ UNCHANGED <<report, called>>
    ELSE /\ fr' = [fr EXCEPT ![t] = F]
         /\ n' = [n EXCEPT ![t] = nn]
         /\ Uncaught(t, code, d, src.site)

\* ------------------------------------------------------------------ Throw
\* Throw(e): record the call site, count the throw in the top frame, throw.
Throw(t, e) ==
    /\ Running(t) /\ InCode(t)
    /\ LET here == Position(t) IN
        /\ exception_detail_s' = [exception_detail_s EXCEPT ![t] = here]
        /\ exp_throw_internal(t, exp_stack_top[t],
                              IncFlag(fr[t], n[t], exp_stack_top[t]), n[t], e,
                              Raised(here), here)
    /\ Did(t, NoExit)
    /\ UNCHANGED <<exp_stack_top, terminate_handle, prog>>

\* ------------------------------------------- Catch, CatchCustom, CatchAll
\* The conditions of the three `else if` heads, on the frame f.
\* Catch without the comparison of the code.
Catch_AnyCode(f, e) == (f.flag % 4) < 2
Catch(f, e) == f.error_code = e /\ (f.flag % 4) < 2
CatchCustom(f, cond) == (f.flag % 4) < 2 /\ f.error_code \in cond
\* CatchAll without the test of the throw count.
CatchAll_Unguarded(f) == TRUE
CatchAll(f) == (f.flag % 4) < 2

Matches(f, cl) ==
    CASE cl.kind = "Catch" -> Catch(f, cl.e)
      [] cl.kind = "CatchCustom" -> CatchCustom(f, cl.cond)
      [] OTHER -> CatchAll(f)

\* The chain that runs the last clause whose condition is true.
FirstMatch_Last(f, ch) ==
    IF \E i \in 1 .. Len(ch) : Matches(f, ch[i])
    THEN CHOOSE i \in 1 .. Len(ch) :
            Matches(f, ch[i]) /\ \A j \in (i + 1) .. Len(ch) : ~Matches(f, ch[j])
    ELSE 0

\* The if / else-if chain runs the first clause whose condition is true.
FirstMatch(f, ch) ==
    IF \E i \in 1 .. Len(ch) : Matches(f, ch[i])
    THEN CHOOSE i \in 1 .. Len(ch) :
            Matches(f, ch[i]) /\ \A j \in 1 .. (i - 1) : ~Matches(f, ch[j])
    ELSE 0

\* ---------------------------------------------------------------- Finally
\* Finally without the test of the executed bit.
Finally_Unguarded(f, b) ==
    IF b = "yes"
    THEN [f EXCEPT !.fb = b, !.flag = IF (@ \div 4) % 2 = 0 THEN @ + 4 ELSE @,
                   !.fin = @ + 1, !.pc = "finally"]
    ELSE [f EXCEPT !.fb = b, !.pc = "end"]

\* Finally: if (!(flag & 4)) { flag |= 4; body }, reached from the closing
\* brace of the Try body or of a clause body, or from the end of a chain in
\* which no clause matched.  b: the region has a Finally block ("yes") or not
\* ("no"); without one control is in front of End.
Finally(f, b) ==
    IF b = "yes" /\ (f.flag \div 4) % 2 = 0
    THEN [f EXCEPT !.fb = b, !.flag = @ + 4, !.fin = @ + 1, !.pc = "finally"]
    ELSE [f EXCEPT !.fb = b, !.pc = "end"]

FinallyText(f) == IF f.fb = "?" THEN {"yes", "no"} ELSE {f.fb}

\* The chain whose clauses do not reset the pending code.
CatchChain_KeepCode(t) ==
    /\ Running(t) /\ n[t] > 0
    /\ LET k == n[t]
           f == fr[t][k]
           i == FirstMatch(f, f.chain)
           g == [f EXCEPT !.chain = <<>>]
       IN /\ f.pc = "dispatch"
          /\ IF i # 0
             THEN fr' = [fr EXCEPT ![t][k] =
                           [g EXCEPT !.pc = "handler",
                                     !.ran = Append(@, [cl |-> f.chain[i], del |-> Len(f.thr)])]]
             ELSE \E b \in FinallyText(f) : fr' = [fr EXCEPT ![t][k] = Finally(g, b)]
    /\ Did(t, NoExit)
    /\ UNCHANGED <<exp_stack_top, n, exception_detail_s, terminate_handle, status,
                   report, called, prog>>

\* setjmp has returned 1: the chain is evaluated; the clause that matches sets
\* error_code = 0 and its body starts; with no match control goes on to the
\* Finally.  ran keeps the clause that ran and the delivery it handled.
CatchChain(t) ==
    /\ Running(t) /\ n[t] > 0
    /\ LET k == n[t]
           f == fr[t][k]
           i == FirstMatch(f, f.chain)
           g == [f EXCEPT !.chain = <<>>]
       IN /\ f.pc = "dispatch"
          /\ IF i # 0
             THEN fr' = [fr EXCEPT ![t][k] =
                           [g EXCEPT !.error_code = 0, !.pc = "handler",
                                     !.ran = Append(@, [cl |-> f.chain[i], del |-> Len(f.thr)])]]
             ELSE \E b \in FinallyText(f) : fr' = [fr EXCEPT ![t][k] = Finally(g, b)]
    /\ Did(t, NoExit)
    /\ UNCHANGED <<exp_stack_top, n, exception_detail_s, terminate_handle, status,
                   report, called, prog>>

\* The body of the Try or of a clause runs to its closing brace, behind which
\* the Finally follows; the body of the Finally runs to its closing brace.
Complete(t) ==
    /\ Running(t) /\ n[t] > 0 /\ InCode(t)
    /\ LET k == n[t]
           f == fr[t][k]
       IN IF f.pc = "finally"
          THEN fr' = [fr EXCEPT ![t][k].pc = "end"]
          ELSE \E b \in FinallyText(f) : fr' = [fr EXCEPT ![t][k] = Finally(f, b)]
    /\ Did(t, NoExit)
    /\ UNCHANGED <<exp_stack_top, n, exception_detail_s, terminate_handle, status,
                   report, called, prog>>

\* -------------------------------------------------------------------- End
\* End without the re-throw of a pending code.
End_NoRethrow(t) ==
    /\ Running(t) /\ n[t] > 0
    /\ fr[t][n[t]].pc = "end"
    /\ exp_stack_top' = [exp_stack_top EXCEPT ![t] = fr[t][n[t]].prev]
    /\ fr' = [fr EXCEPT ![t] = Unwind(fr[t], n[t] - 1)]
    /\ n' = [n EXCEPT ![t] = n[t] - 1]
    /\ Did(t, NoExit)
    /\ UNCHANGED <<exception_detail_s, terminate_handle, status, report, called, prog>>

\* End: top = __e_frame.prev; if (error_code != 0) { if (top) ++top->flag;
\* __exp_throw_internal(error_code); }
End(t) ==
    /\ Running(t) /\ n[t] > 0
    /\ LET k == n[t]
           f == fr[t][k]
           p == f.prev
           F == Unwind(fr[t], k - 1)
       IN /\ f.pc = "end"
          /\ exp_stack_top' = [exp_stack_top EXCEPT ![t] = p]
          /\ IF f.error_code # 0
             THEN exp_throw_internal(t, p, IncFlag(F, k - 1, p), k - 1, f.error_code,
                                     Passed(f.thr[Len(f.thr)], f), exception_detail_s[t])
             ELSE /\ fr' = [fr EXCEPT ![t] = F]
                  /\ n' = [n EXCEPT ![t] = k - 1]
                  /\ UNCHANGED <<status, report, called>>
    /\ Did(t, NoExit)
    /\ UNCHANGED <<exception_detail_s, terminate_handle, prog>>

\* ------------------------------------------------ Return, Break, Continue
\* Return: top = __e_frame.prev; return.  The function returns, which leaves
\* every region of the function: the innermost one, k, and the regions j..k-1
\* of the same function around it.
Return(t) ==
    /\ Running(t) /\ n[t] > 0 /\ InCode(t)
    /\ LET k == n[t] IN
        \E j \in 1 .. k :
            /\ k - j <= prog[t].deep
            /\ exp_stack_top' = [exp_stack_top EXCEPT ![t] = fr[t][k].prev]
            /\ fr' = [fr EXCEPT ![t] = Unwind(fr[t], j - 1)]
            /\ n' = [n EXCEPT ![t] = j - 1]
    /\ Did(t, Exit("Return", n[t], fr[t][n[t]]))
    /\ UNCHANGED <<exception_detail_s, terminate_handle, status, report, called, prog>>

\* Break, Continue: top = __e_frame.prev; then break or continue, which act on
\* the innermost enclosing loop.  That is the do { ... } while(0) of the Try
\* itself, and control leaves the region and goes on behind its End; or it is
\* a loop of the program inside the block (inner), and control stays in the
\* block, behind or at the head of that loop.  A loop of the program around
\* the region (around) encloses the do { ... } while(0) and is never the
\* innermost one.
LeaveDoWhile(t, x) ==
    /\ Running(t) /\ n[t] > 0 /\ InCode(t)
    /\ LET k == n[t] IN
        /\ exp_stack_top' = [exp_stack_top EXCEPT ![t] = fr[t][k].prev]
        /\ \E inner, around \in (IF prog[t].loops THEN BOOLEAN ELSE {FALSE}) :
             /\ IF inner
                THEN /\ fr' = [fr EXCEPT ![t][k].early = fr[t][k].pc]
                     /\ UNCHANGED n
                ELSE /\ fr' = [fr EXCEPT ![t] = Unwind(fr[t], k - 1)]
                     /\ n' = [n EXCEPT ![t] = k - 1]
             /\ Did(t, [Exit(x, k, fr[t][k]) EXCEPT
                          !.around = around,
                          !.to = IF inner THEN "inner loop" ELSE "behind End"])
    /\ UNCHANGED <<exception_detail_s, terminate_handle, status, report, called, prog>>

Break(t) == LeaveDoWhile(t, "Break")

Continue(t) == LeaveDoWhile(t, "Continue")

\* ------------------------------------------ set_exception_terminate_handle
\* The handler kept in one variable of the process instead of one per thread.
set_exception_terminate_handle_Shared(t, h) ==
    /\ Running(t) /\ InCode(t)
    /\ terminate_handle' = [u \in Threads |-> h]
    /\ Did(t, NoExit)
    /\ UNCHANGED <<exp_stack_top, fr, n, exception_detail_s, status, report, called, prog>>

set_exception_terminate_handle(t, h) ==
    /\ Running(t) /\ InCode(t)
    /\ terminate_handle' = [terminate_handle EXCEPT ![t] = h]
    /\ Did(t, NoExit)
    /\ UNCHANGED <<exp_stack_top, fr, n, exception_detail_s, status, report, called, prog>>

\* --------------------------------------------------------------------------
\* One step of thread t.
Step(t) ==
    \/ Try(t)
    \/ \E e \in Codes : Throw(t, e)
    \/ CatchChain(t)
    \/ Complete(t)
    \/ End(t)
    \/ Return(t)
    \/ Break(t)
    \/ Continue(t)
    \/ \E h \in Handlers \cup {NULL} : set_exception_terminate_handle(t, h)

Next == \E t \in Threads : Step(t)

\* One step of thread t of a program that uses none of Return, Break and
\* Continue.
StepPlain(t) ==
    \/ Try(t)
    \/ \E e \in Codes : Throw(t, e)
    \/ CatchChain(t)
    \/ Complete(t)
    \/ End(t)
    \/ \E h \in Handlers \cup {NULL} : set_exception_terminate_handle(t, h)

NextPlain == \E t \in Threads : StepPlain(t)

\* A running thread goes on: it evaluates the chain it is in front of and
\* executes the End it is in front of.  The blocks of the program terminate:
\* a block that control keeps coming back to (from the regions nested in it)
\* reaches its closing brace unless a throw takes control out of it.
Progress(t) ==
    /\ WF_vars(CatchChain(t))
    /\ WF_vars(End(t))
    /\ \A k \in Slots : SF_vars(Complete(t) /\ n[t] = k)

Spec == Init /\ [][Next]_vars
\* The program of InitPlain: no Return, Break or Continue, and its blocks
\* terminate.
SpecPlain == InitPlain /\ [][NextPlain]_vars /\ \A t \in Threads : Progress(t)
SpecReturn == InitReturn /\ [][Next]_vars
SpecMT == InitMT /\ [][Next]_vars
SpecLoop == InitLoop /\ [][Next]_vars

\* ==========================================================================
\* Properties
\* ==========================================================================
\* The frame of the innermost live region of t (Dead if there is none), the
\* frames of its live regions, the last error delivered to a frame.
Inner(t) == IF n[t] = 0 THEN Dead ELSE fr[t][n[t]]
LiveFrames(t) == {fr[t][k] : k \in 1 .. n[t]}
LastDel(f) == f.thr[Len(f.thr)]

\* The condition written in clause cl is true of the code c; the first clause
\* of the chain ch of which it is (0: none).
Accepts(cl, c) ==
    CASE cl.kind = "Catch" -> cl.e = c
      [] cl.kind = "CatchCustom" -> c \in cl.cond
      [] OTHER -> TRUE

FirstAccepting(ch, c) ==
    IF \E i \in 1 .. Len(ch) : Accepts(ch[i], c)
    THEN CHOOSE i \in 1 .. Len(ch) :
            Accepts(ch[i], c) /\ \A j \in 1 .. (i - 1) : ~Accepts(ch[j], c)
    ELSE 0

\* f is in front of its chain with the error of a Throw(c) of its Try body.
ThrownInBody(f, c) ==
    /\ f.pc = "dispatch" /\ Len(f.thr) = 1
    /\ f.thr[1].own /\ f.thr[1].at = "body" /\ f.thr[1].code = c

\* The clause Catch(c) ran for the Throw(c) of the Try body of f's region.
CaughtBodyThrow(f, c) ==
    /\ Len(f.thr) >= 1 /\ f.thr[1].own /\ f.thr[1].at = "body" /\ f.thr[1].code = c
    /\ Len(f.ran) >= 1 /\ f.ran[1] = [cl |-> CatchClause(c), del |-> 1]

\* In this step of t the code c leaves a region whose frame has prev = p: the
\* frame p is in front of its chain with c, or, with no frame left, the
\* terminate handler took c without returning or the report of c was printed
\* and the process aborted.
DeliveredOut(t, p, c) ==
    IF p # NULL
    THEN /\ n'[t] = p
         /\ fr'[t][p].pc = "dispatch"
         /\ fr'[t][p].error_code = c
    ELSE \/ /\ status'[t] = "aborted"
            /\ report'[t].printed /\ report'[t].code = c
         \/ /\ status'[t] = "handled"
            /\ called'[t].code = c

\* ------------------------------------------------------------------- C1
\* The chain of a region whose body threw c contains Catch(c): the body of that
\* clause starts, and of no other.
C1_OriginalStep ==
    \A t \in Threads : \A c \in NonZero :
        (/\ ThrownInBody(Inner(t), c)
         /\ \E i \in 1 .. Len(Inner(t).chain) : Inner(t).chain[i] = CatchClause(c)
         /\ CatchChain(t))
        => /\ Inner(t)'.pc = "handler"
           /\ Inner(t)'.ran = <<[cl |-> CatchClause(c), del |-> 1]>>

\* c is not pending when the region reaches End.
C1_OriginalEnd ==
    \A t \in Threads : \A c \in NonZero :
        (Inner(t).pc = "end" /\ CaughtBodyThrow(Inner(t), c)) => Inner(t).error_code # c

\* C1 as stated: for non-zero c, a Throw(c) in the body of a region whose chain
\* contains Catch(c) runs the body of that Catch(c) and of no other clause, and
\* c is not pending when the region reaches End (End propagates nothing).
C1_Original == [][C1_OriginalStep]_vars /\ []C1_OriginalEnd

\* Catch(c) is the first clause whose condition is true of the c thrown in the
\* body: its body starts, and the pending code is reset.
C1_Step ==
    \A t \in Threads : \A c \in NonZero :
        (/\ ThrownInBody(Inner(t), c)
         /\ FirstAccepting(Inner(t).chain, c) # 0
         /\ Inner(t).chain[FirstAccepting(Inner(t).chain, c)] = CatchClause(c)
         /\ CatchChain(t))
        => /\ Inner(t)'.pc = "handler"
           /\ Inner(t)'.error_code = 0
           /\ Inner(t)'.ran = <<[cl |-> CatchClause(c), del |-> 1]>>

\* No second clause body runs in the region, and nothing is pending unless a
\* later throw was delivered to the frame.
C1_Once ==
    \A t \in Threads : \A f \in LiveFrames(t) : \A c \in NonZero :
        CaughtBodyThrow(f, c)
        => /\ Len(f.ran) = 1
           /\ (Len(f.thr) = 1 => f.error_code = 0)

\* C1 amended: for non-zero c, when Catch(c) is the first clause of the chain
\* whose condition is true of c, a Throw(c) in the Try body runs the body of
\* that clause, once, and of no other clause of the region, and consumes the
\* error: whatever is pending afterwards was delivered by a later throw.
C1_FirstMatch == [][C1_Step]_vars /\ []C1_Once

\* A region nested in another one is in front of End: its body threw a non-zero
\* code, Catch of that code ran, the Finally ran and nothing is pending.
C1_Witness ==
    \E t \in Threads : \E c \in NonZero :
        /\ n[t] = 2 /\ Inner(t).pc = "end"
        /\ CaughtBodyThrow(Inner(t), c)
        /\ Len(Inner(t).thr) = 1 /\ Inner(t).fin = 1 /\ Inner(t).error_code = 0

\* ------------------------------------------------------------------- C2
\* C2: in a region with a Finally block that is not left by Return, Break or
\* Continue, the Finally body is entered exactly once per entry of the region:
\* never a second time, and once by the time the region is in front of End,
\* whether the body completed, threw and was handled, threw and was not, a
\* handler threw again, or the error came from a nested region.
C2_FinallyOnce ==
    \A t \in Threads : \A f \in LiveFrames(t) :
        /\ f.fin <= 1
        /\ (f.pc = "end" /\ f.fb = "yes") => f.fin = 1

\* A region is in front of End after its Finally ran once: an error of a nested
\* region came through its Try body, a clause handled it and the clause body
\* threw again.
C2_Witness ==
    \E t \in Threads :
        /\ n[t] = 1 /\ Inner(t).pc = "end" /\ Inner(t).fb = "yes" /\ Inner(t).fin = 1
        /\ Len(Inner(t).thr) = 2 /\ Len(Inner(t).ran) = 1
        /\ ~Inner(t).thr[1].own /\ Inner(t).thr[1].at = "body"
        /\ Inner(t).thr[2].own /\ Inner(t).thr[2].at = "handler"
        /\ Inner(t).error_code # 0

\* ------------------------------------------------------------------- C3
\* No clause of a region handles an error delivered while a clause body of the
\* same region was executing (a Throw in it, or the End of a region in it).
C3_NoSelfCatch ==
    \A t \in Threads : \A f \in LiveFrames(t) : \A i \in 1 .. Len(f.ran) :
        f.thr[f.ran[i].del].at # "handler"

\* The End of a region delivers outward the non-zero code of a Throw that a
\* clause body of the region executed.
C3_OriginalStep ==
    \A t \in Threads : \A c \in NonZero :
        (/\ Inner(t).pc = "end"
         /\ \E i \in 1 .. Len(Inner(t).thr) :
                /\ Inner(t).thr[i].own /\ Inner(t).thr[i].at = "handler"
                /\ Inner(t).thr[i].code = c
         /\ End(t))
        => DeliveredOut(t, Inner(t).prev, c)

\* C3 as stated: the non-zero code of a Throw executed in a handler body of a
\* region is never handled by a clause of that region, and is the code that the
\* region's End delivers to the next enclosing region or to the uncaught path.
C3_Original == [][C3_OriginalStep]_vars /\ []C3_NoSelfCatch

\* The End of a region whose last delivered error is the non-zero code of a
\* Throw in a clause body comes after its Finally and delivers the code outward.
C3_Step ==
    \A t \in Threads : \A c \in NonZero :
        (/\ Inner(t).pc = "end"
         /\ Len(Inner(t).thr) >= 1
         /\ LastDel(Inner(t)).own /\ LastDel(Inner(t)).at = "handler"
         /\ LastDel(Inner(t)).code = c
         /\ End(t))
        => /\ (Inner(t).fb = "yes" => Inner(t).fin = 1)
           /\ DeliveredOut(t, Inner(t).prev, c)

\* C3 amended: a Throw executed in a handler body of a region is never handled
\* by a clause of that region; when the region reaches End with that Throw the
\* last error delivered to its frame (a Finally, if any, has run and has not
\* thrown), its code, if non-zero, is delivered to the next enclosing region,
\* or to the uncaught path if there is none.
C3_Rethrow == [][C3_Step]_vars /\ []C3_NoSelfCatch

\* The report of a non-zero code was printed and the process aborted, and the
\* last Throw of the thread was in a handler body of an outermost region.
C3_Witness ==
    \E t \in Threads :
        /\ status[t] = "aborted" /\ report[t].printed
        /\ report[t].code \in NonZero
        /\ report[t].detail = Site(1, "handler")

\* ------------------------------------------------------------------- C4
\* An error thrown in a Try body, at a frame it reached through Try bodies, is
\* handled by the first clause whose condition is true of it, if the chain has
\* one, and otherwise left pending and no clause body runs.
C4_Handle ==
    \A t \in Threads : \A c \in NonZero :
        (/\ Inner(t).pc = "dispatch"
         /\ LastDel(Inner(t)).pure /\ LastDel(Inner(t)).code = c
         /\ CatchChain(t))
        => LET i == FirstAccepting(Inner(t).chain, c) IN
           IF i # 0
           THEN /\ Inner(t)'.pc = "handler"
                /\ Inner(t)'.ran = <<[cl |-> Inner(t).chain[i], del |-> 1]>>
           ELSE /\ Inner(t)'.pc \in {"finally", "end"}
                /\ Inner(t)'.error_code = c
                /\ Inner(t)'.ran = <<>>

\* The End of a region that did not handle such an error comes after the
\* region's Finally, if it has one, and delivers the error outward.
C4_Pass ==
    \A t \in Threads : \A c \in NonZero :
        (/\ Inner(t).pc = "end"
         /\ Len(Inner(t).thr) = 1 /\ Inner(t).ran = <<>>
         /\ Inner(t).thr[1].pure /\ Inner(t).thr[1].code = c
         /\ End(t))
        => /\ (Inner(t).fb = "yes" => Inner(t).fin = 1)
           /\ DeliveredOut(t, Inner(t).prev, c)

\* No error was delivered past a Finally block that had not been entered.
C4_Order ==
    \A t \in Threads : \A f \in LiveFrames(t) : \A i \in 1 .. Len(f.thr) :
        f.thr[i].fins # "skipped"

\* C4: an error thrown in the body of the innermost of nested regions is
\* handled by the innermost enclosing region whose chain has a matching
\* clause, and each region between the Throw and the handling region has run
\* its Finally, inner to outer, before the handling clause body starts.
C4_Nesting == [][C4_Handle /\ C4_Pass]_vars /\ []C4_Order

\* The body of an outer Catch(c) starts: the error was thrown in the Try body
\* of the nested region, which did not handle it and whose Finally ran.
C4_Witness ==
    \E t \in Threads : \E c \in NonZero :
        /\ n[t] = 1 /\ Inner(t).pc = "handler"
        /\ Inner(t).ran = <<[cl |-> CatchClause(c), del |-> 1]>>
        /\ Inner(t).thr =
             <<[code |-> c, at |-> "body", own |-> FALSE, pure |-> TRUE, fins |-> "ran",
                site |-> Site(2, "body")]>>

\* ------------------------------------------------------------------- C5
\* The step of a Throw(e) with no frame on the thread's stack: the handler
\* call, the report, the abort.
C5_Step ==
    \A t \in Threads : \A e \in Codes :
        (exp_stack_top[t] = NULL /\ Throw(t, e))
        => /\ status'[t] \in {"aborted", "handled"}
           /\ terminate_handle[t] # NULL
                => called'[t] = [h |-> terminate_handle[t], code |-> e]
           /\ terminate_handle[t] = NULL
                => called'[t] = called[t] /\ status'[t] = "aborted"
           /\ status'[t] = "aborted"
                => report'[t] = [printed |-> TRUE, code |-> e, detail |-> Site(0, "top"),
                                 origin |-> Site(0, "top")]

\* C5: a Throw(e) executed with no frame on the thread's stack calls the
\* thread's terminate handler with e if one is set; if none is set, or it
\* returns, the report of e is printed and the process aborts; the thread does
\* not go on running behind the Throw.
C5_NeverSilent == [][C5_Step]_vars

\* A Throw outside every region: the handler was called and returned, the
\* report was printed and the process aborted.
C5_Witness ==
    \E t \in Threads :
        /\ status[t] = "aborted" /\ n[t] = 0
        /\ called[t].h # NULL /\ called[t].code = report[t].code
        /\ report[t].printed /\ report[t].detail = Site(0, "top")

\* ------------------------------------------------------------------- C6
\* The frames reached from the pointer p through prev links, p first.  The
\* walk follows at most MaxDepth + 1 links.
RECURSIVE Walk(_, _, _)
Walk(F, p, fuel) ==
    IF p = NULL \/ fuel = 0 THEN <<>> ELSE <<p>> \o Walk(F, F[p].prev, fuel - 1)

\* C6: in every state the frames reached from a thread's top through prev
\* links are the frames of the regions the thread has entered and not left,
\* innermost first.
C6_Mirror ==
    \A t \in Threads :
        Walk(fr[t], exp_stack_top[t], MaxDepth + 1) = [i \in 1 .. n[t] |-> n[t] + 1 - i]

\* ------------------------------------------------------------------- C7
\* A step of thread t changes nothing of another thread, and the handler it
\* calls is the one t has set.
C7_Step ==
    \A t \in Threads :
        last'.actor = t
        => /\ \A u \in Threads \ {t} :
                /\ exp_stack_top'[u] = exp_stack_top[u]
                /\ fr'[u] = fr[u] /\ n'[u] = n[u]
                /\ exception_detail_s'[u] = exception_detail_s[u]
                /\ terminate_handle'[u] = terminate_handle[u]
                /\ called'[u] = called[u]
           /\ called'[t] # called[t] => called'[t].h = terminate_handle[t]
           /\ status'[t] = "aborted" /\ terminate_handle[t] = NULL
                => called'[t] = called[t]

\* C7: a step of one thread leaves the top pointer, the frames, the diagnostic
\* record and the terminate handler of every other thread unchanged; the frame
\* a Throw transfers control to is on the stack of the throwing thread; the
\* terminate handler called for an uncaught error of a thread is the one that
\* thread has set.
C7_Isolation == [][C7_Step]_vars

\* One thread has set a terminate handler and is inside a region; an error of
\* the other thread, which has set none, was uncaught: no handler was called,
\* the report was printed and the process aborted.
C7_Witness ==
    \E t, u \in Threads :
        /\ t # u
        /\ terminate_handle[t] # NULL /\ n[t] = 1 /\ exp_stack_top[t] = 1
        /\ terminate_handle[u] = NULL /\ status[u] = "aborted"
        /\ called[u] = NoCall /\ report[u].printed

\* ------------------------------------------------------------------- C8
\* C8: it never happens that a Throw(0) in the body of a region abandons the
\* rest of the body and the region is then in front of End with nothing
\* reported and nothing pending, so that End pops the frame and propagates
\* nothing.
C8_ZeroFlagged ==
    \A t \in Threads : \A f \in LiveFrames(t) :
        ~(/\ f.pc = "end" /\ f.error_code = 0 /\ f.ran = <<>>
          /\ Len(f.thr) = 1
          /\ f.thr[1].own /\ f.thr[1].at = "body" /\ f.thr[1].code = 0
          /\ status[t] = "running" /\ ~report[t].printed /\ called[t] = NoCall)

\* ------------------------------------------------------------------- C9
\* C9: a Return, Break or Continue executed in the body of a Try region sets
\* the thread's top to the prev of the region's frame, and the Finally body of
\* the region is not executed for that entry of the region: not before the
\* macro and not after it.
C9_Bypass ==
    /\ (last.exit.how # "none" /\ last.exit.at = "body")
         => exp_stack_top[last.actor] = last.exit.prev /\ last.exit.fin = 0
    /\ \A t \in Threads : \A f \in LiveFrames(t) : f.early = "body" => f.fin = 0

\* ------------------------------------------------------------------ C10
\* C10: an error, a non-zero code, thrown in the Finally body of a region is
\* never handled by a clause of the same region.
C10_NotConsumed ==
    \A t \in Threads : \A f \in LiveFrames(t) : \A i \in 1 .. Len(f.ran) :
        ~(f.thr[f.ran[i].del].at = "finally" /\ f.thr[f.ran[i].del].code \in NonZero)

\* ------------------------------------------------------------------ C11
\* f is in front of End: its body threw the non-zero code c, no clause handled
\* it, and its Finally body then threw the non-zero code d.
Overwritten(f, c, d) ==
    /\ f.pc = "end" /\ f.ran = <<>> /\ Len(f.thr) = 2
    /\ f.thr[1].at = "body" /\ f.thr[1].code = c
    /\ f.thr[2].at = "finally" /\ f.thr[2].code = d

\* The End of such a region delivers d outward, and not c.
C11_Step ==
    \A t \in Threads : \A c, d \in NonZero :
        (Overwritten(Inner(t), c, d) /\ End(t))
        => /\ DeliveredOut(t, Inner(t).prev, d)
           /\ c # d => ~DeliveredOut(t, Inner(t).prev, c)

\* The code pending in such a frame is d.
C11_Pending ==
    \A t \in Threads : \A f \in LiveFrames(t) : \A c, d \in NonZero :
        Overwritten(f, c, d) => f.error_code = d

\* C11: when the body of a region throws c, no clause of the region handles it
\* and the region's Finally body then throws d, the code pending in the frame
\* is d, and the code that End delivers to the next-outer frame or to the
\* uncaught path is d, never c.
C11_Overwrite == [][C11_Step]_vars /\ []C11_Pending

\* A nested region is in front of End: its body threw one code, unhandled, and
\* a Throw in its Finally body put another code in its place.
C11_Witness ==
    \E t \in Threads : \E c, d \in NonZero :
        /\ c # d /\ n[t] = 2
        /\ Overwritten(Inner(t), c, d)
        /\ Inner(t).thr[1].own /\ Inner(t).thr[2].own
        /\ Inner(t).fin = 1 /\ Inner(t).error_code = d

\* ------------------------------------------------------------------ C12
\* #define ErrorCode __e_frame.error_code: what reading ErrorCode yields in a
\* block of the region of frame f.
ErrorCode(f) == f.error_code

\* C12: in the body of a matched CatchCustom clause, reading ErrorCode yields
\* the code that was thrown, for every non-zero thrown code that satisfies the
\* clause's condition.
C12_ErrorCodeInBody ==
    \A t \in Threads : \A f \in LiveFrames(t) :
        (/\ f.pc = "handler"
         /\ f.ran[Len(f.ran)].cl.kind = "CatchCustom"
         /\ f.thr[f.ran[Len(f.ran)].del].code \in NonZero)
        => ErrorCode(f) = f.thr[f.ran[Len(f.ran)].del].code

\* ------------------------------------------------------------------ C13
\* C13: whenever the uncaught-error report is printed, the file, function and
\* line it shows are those of the Throw call site that raised the code it
\* shows, also when the error propagated through the End of regions and other
\* Throws were executed and handled on the thread in between.
C13_ReportSite ==
    \A t \in Threads : report[t].printed => report[t].detail = report[t].origin

\* ------------------------------------------------------------------ C14
\* The CatchAll that ends the chain ran for the one error of the region, which
\* its Try body threw.
RanCatchAll(f) ==
    /\ Len(f.thr) = 1 /\ f.thr[1].own /\ f.thr[1].at = "body"
    /\ f.ran = <<[cl |-> AllClause, del |-> 1]>>

\* The chain ends with CatchAll and no clause before it accepts the code thrown
\* in the Try body: the body of the CatchAll starts, the Finally has not.  At
\* the End of a region whose CatchAll ran the frame is popped and nothing is
\* thrown on: the thread runs on in the block around the region, and the frame
\* around it is as it was.
C14_Step ==
    \A t \in Threads :
        /\ \A c \in Codes :
            (/\ ThrownInBody(Inner(t), c)
             /\ Len(Inner(t).chain) >= 1
             /\ Inner(t).chain[Len(Inner(t).chain)] = AllClause
             /\ FirstAccepting(Inner(t).chain, c) = Len(Inner(t).chain)
             /\ CatchChain(t))
            => /\ Inner(t)'.pc = "handler"
               /\ Inner(t)'.fin = 0
               /\ RanCatchAll(Inner(t)')
        /\ (Inner(t).pc = "end" /\ RanCatchAll(Inner(t)) /\ End(t))
            => /\ n'[t] = n[t] - 1
               /\ exp_stack_top'[t] = Inner(t).prev
               /\ status'[t] = "running" /\ ~report'[t].printed
               /\ \A j \in 1 .. (n[t] - 1) : fr'[t][j] = fr[t][j]

\* While the body of the CatchAll runs the Finally has not started; the
\* Finally starts once, behind it; in front of End the Finally, if the region
\* has one, has run, and no code is pending.
C14_Order ==
    \A t \in Threads : \A f \in LiveFrames(t) :
        RanCatchAll(f)
        => /\ f.pc \in {"handler", "finally", "end"}
           /\ f.pc = "handler" => f.fin = 0
           /\ f.pc = "finally" => f.fin = 1
           /\ f.pc = "end" => /\ f.error_code = 0
                              /\ f.fb = "yes" => f.fin = 1
                              /\ f.fb = "no" => f.fin = 0

\* C14: when the Try body of a region throws a code that no earlier clause
\* accepts and the chain ends with CatchAll, the CatchAll body runs, it is
\* complete before the Finally body starts, the Finally body is complete before
\* End pops the frame, and End throws nothing on.
C14_CatchAllThenFinally == [][C14_Step]_vars /\ []C14_Order

\* A region nested in another one is at End: its Try body threw a non-zero code,
\* the CatchAll ran, then the Finally, and nothing is pending.
C14_Witness ==
    \E t \in Threads :
        /\ n[t] = 2 /\ Inner(t).pc = "end" /\ RanCatchAll(Inner(t))
        /\ Inner(t).thr[1].code # 0
        /\ Inner(t).fb = "yes" /\ Inner(t).fin = 1 /\ Inner(t).error_code = 0

\* ------------------------------------------------------------------ C15
\* The chain is evaluated: if a clause body starts, it is the body of a clause
\* whose condition is true of the frame while the condition of every clause
\* before it is false, and it is one body more than before; if none starts, no
\* clause of the chain has a true condition.
C15_Step ==
    \A t \in Threads :
        (Inner(t).pc = "dispatch" /\ CatchChain(t))
        => LET f == Inner(t)
               g == Inner(t)'
           IN IF g.pc = "handler"
              THEN /\ Len(g.ran) = Len(f.ran) + 1
                   /\ \E i \in 1 .. Len(f.chain) :
                        /\ g.ran[Len(g.ran)].cl = f.chain[i]
                        /\ Matches(f, f.chain[i])
                        /\ \A j \in 1 .. (i - 1) : ~Matches(f, f.chain[j])
              ELSE /\ g.ran = f.ran
                   /\ \A i \in 1 .. Len(f.chain) : ~Matches(f, f.chain[i])

\* A clause body starts in no other step.
C15_OnlyChain ==
    \A t \in Threads : \A k \in Slots :
        Len(fr'[t][k].ran) > Len(fr[t][k].ran) => (k = n[t] /\ fr[t][k].pc = "dispatch")

\* At most one clause body has run in a region, and none in a region to whose
\* frame no error was delivered.
C15_AtMostOne ==
    \A t \in Threads : \A f \in LiveFrames(t) :
        /\ Len(f.ran) <= 1
        /\ f.thr = <<>> => f.ran = <<>>

\* C15: per entry of a region at most one clause body executes; the clauses are
\* tried in source order, the first whose condition is true runs and the later
\* ones are skipped; no clause body executes in a region to whose frame no
\* error was delivered.
C15_OneHandler == [][C15_Step /\ C15_OnlyChain]_vars /\ []C15_AtMostOne

\* A region nested in another one is at End: two errors were delivered to its
\* frame, the second one after the Finally had started, and one clause body
\* ran.
C15_Witness ==
    \E t \in Threads :
        /\ n[t] = 2 /\ Inner(t).pc = "end"
        /\ Len(Inner(t).thr) = 2 /\ Inner(t).thr[2].at = "finally"
        /\ Inner(t).thr[1].code # 0 /\ Inner(t).thr[2].code # 0
        /\ Len(Inner(t).ran) = 1

\* ------------------------------------------------------------------ C16
\* A step of t in which a function returns by Return: the regions above slot
\* n'[t] are those of the function, the outermost of them, in slot n'[t] + 1,
\* was entered with the top the thread had when the function was entered.
\* After the step the top is that one again, and no frame of a region of the
\* function is reached from it.
C16_Step ==
    \A t \in Threads :
        (last'.exit.how = "Return" /\ last'.actor = t /\ Return(t))
        => /\ exp_stack_top'[t] = fr[t][n'[t] + 1].prev
           /\ LET w == Walk(fr'[t], exp_stack_top'[t], MaxDepth + 1)
              IN \A i \in 1 .. Len(w) : w[i] <= n'[t]

\* C16: when a function executes Return in a region, also one that is nested
\* in other regions of the same function, every frame the function pushed is
\* popped: after the return the thread's top is the top at function entry and
\* no frame of the function is reachable from it.
C16_ReturnPopsAll == [][C16_Step]_vars

\* ------------------------------------------------------------------ C17
\* C17: a Break or Continue executed in the Try body of a region that sits in
\* the body of a loop, with no loop between the macro and the region, exits
\* that loop or starts its next iteration: control does not go to the statement
\* that follows the region's End in the loop body.
C17_LoopExit ==
    (/\ last.exit.how \in {"Break", "Continue"}
     /\ last.exit.at = "body"
     /\ last.exit.around
     /\ last.exit.to # "inner loop")
    => last.exit.to = "around loop"

\* ------------------------------------------------------------------ C19
\* C19: each live frame's flag is in 0..7, and its bit of value 4 is set if and
\* only if the Finally body of the region has been entered: the count of
\* throws in the low two bits stays below 4 and never carries into that bit,
\* and a region with a Finally block does not reach End without its Finally
\* body having been entered.
C19_FlagBits ==
    \A t \in Threads : \A f \in LiveFrames(t) :
        /\ f.flag \in 0 .. 7
        /\ ((f.flag \div 4) % 2 = 1) <=> (f.fin >= 1)
        /\ (f.flag % 4) = Len(f.thr)
        /\ (f.pc = "end" /\ f.fb = "yes") => f.fin >= 1

\* A region nested in another one has flag 7: the Try body, the clause body and
\* the Finally body each threw, and the Finally body was entered once.
C19_Witness ==
    \E t \in Threads :
        /\ n[t] = 2 /\ Inner(t).flag = 7 /\ Inner(t).fin = 1
        /\ Len(Inner(t).thr) = 3 /\ Len(Inner(t).ran) = 1

\* ------------------------------------------------------------------ C18
\* The m-th error delivered to the frame in slot k of t is pending in it, with
\* the non-zero code c.
Pending(t, k, m, c) ==
    /\ k <= n[t]
    /\ fr[t][k].error_code = c /\ Len(fr[t][k].thr) = m /\ fr[t][k].thr[m].code = c

\* What a step does to an error pending in the frame in slot k of t.  Kept: it
\* is still pending.  Consumed: the chain was evaluated and the body of one
\* clause starts for it.  PassedOn: End threw it on, to the next frame or to the
\* uncaught path.  Replaced: a throw from the Finally body of the region, or
\* from a region nested in it, stored its code in the frame.
Kept(t, k) ==
    /\ k <= n'[t]
    /\ fr'[t][k].error_code = fr[t][k].error_code
    /\ fr'[t][k].thr = fr[t][k].thr

Consumed(t, k) ==
    /\ k = n[t] /\ k = n'[t] /\ fr[t][k].pc = "dispatch"
    /\ fr'[t][k].pc = "handler" /\ fr'[t][k].error_code = 0
    /\ fr'[t][k].thr = fr[t][k].thr
    /\ Len(fr'[t][k].ran) = Len(fr[t][k].ran) + 1
    /\ fr'[t][k].ran[Len(fr'[t][k].ran)].del = Len(fr[t][k].thr)
    /\ \A i \in 1 .. Len(fr[t][k].ran) : fr[t][k].ran[i].del # Len(fr[t][k].thr)

PassedOn(t, k) ==
    /\ k = n[t] /\ fr[t][k].pc = "end"
    /\ DeliveredOut(t, fr[t][k].prev, fr[t][k].error_code)

Replaced(t, k) ==
    /\ k <= n'[t] /\ fr[t][k].pc = "finally"
    /\ fr'[t][k].pc = "dispatch"
    /\ Len(fr'[t][k].thr) = Len(fr[t][k].thr) + 1
    /\ LastDel(fr'[t][k]).at = "finally"
    /\ fr'[t][k].error_code = LastDel(fr'[t][k]).code

\* An error is delivered to a frame: its code is the code pending in the frame,
\* in front of the chain.
C18_Delivered ==
    \A t \in Threads : \A k \in Slots :
        Len(fr'[t][k].thr) > Len(fr[t][k].thr)
        => /\ k = n'[t] /\ fr'[t][k].pc = "dispatch"
           /\ fr'[t][k].error_code = LastDel(fr'[t][k]).code

\* No Throw(0) was executed in a region of t that is live after the step.
NonZeroOnly(t) ==
    \A j \in 1 .. n'[t] : \A i \in 1 .. Len(fr'[t][j].thr) : fr'[t][j].thr[i].code # 0

\* A pending error is kept, consumed or passed on by every step (of a program
\* that throws non-zero codes only).
C18_OriginalStep ==
    \A t \in Threads : \A k \in 1 .. n[t] :
        (fr[t][k].error_code # 0 /\ NonZeroOnly(t))
        => (Kept(t, k) \/ Consumed(t, k) \/ PassedOn(t, k))

\* A pending error is kept, consumed, passed on or replaced by every step.
C18_Step ==
    \A t \in Threads : \A k \in 1 .. n[t] :
        fr[t][k].error_code # 0
        => (Kept(t, k) \/ Consumed(t, k) \/ PassedOn(t, k) \/ Replaced(t, k))

\* A frame receives at most three jumps.
C18_Bounded == \A t \in Threads : \A f \in LiveFrames(t) : Len(f.thr) <= 3

\* A pending error does not stay pending for ever.
C18_Resolved ==
    \A t \in Threads : \A k \in Slots : \A m \in 1 .. 3 : \A c \in NonZero :
        Pending(t, k, m, c) ~> ~Pending(t, k, m, c)

\* C18 as stated: with finite nesting and no Return, Break or Continue, every
\* non-zero error that is thrown is eventually consumed by exactly one clause
\* or reaches the uncaught path, and is not dropped otherwise; each frame
\* receives a bounded number of jumps before it is popped.
C18_Original ==
    /\ [][C18_Delivered /\ C18_OriginalStep]_vars
    /\ []C18_Bounded
    /\ C18_Resolved

\* C18 amended: with finite nesting, terminating blocks and no Return, Break or
\* Continue, every non-zero error that is thrown is eventually consumed by
\* exactly one clause, or reaches the uncaught path, or is replaced in the
\* frame in which it is pending by the code of a throw executed in the Finally
\* body of that frame's region (or that left a region nested in it); it is not
\* dropped otherwise; each frame receives at most three jumps before it is
\* popped.
C18_NotDropped ==
    /\ [][C18_Delivered /\ C18_Step]_vars
    /\ []C18_Bounded
    /\ C18_Resolved

\* An error raised in the Try body of a nested region has left both regions
\* through their End and has reached the uncaught path: the report shows its
\* code.
C18_Witness ==
    \E t \in Threads :
        /\ status[t] = "aborted" /\ report[t].printed
        /\ report[t].code # 0 /\ report[t].origin = Site(MaxDepth, "body")
        /\ report[t].detail = report[t].origin

====
